---- MODULE Spec2Model ----
(***************************************************************************)
(* A model of udapi.core.node.Node (src/udapi/core/node.py): the parent /  *)
(* children links of a dependency tree, the word-order index ord, the      *)
(* reordering (shift) operations with the root's renumbering pass, and the *)
(* raw / deserialized pair of enhanced dependencies.                       *)
(*                                                                         *)
(* Nodes are numbered in creation order; node 0 is the technical root of   *)
(* the sentence (class udapi.core.root.Root, which is not part of the      *)
(* sources modelled here; what the model needs of it is taken from the     *)
(* specification: its registry _descendants, its descendants accessor and  *)
(* its renumbering pass _update_ordering).                                 *)
(*                                                                         *)
(* A Python string is a sequence of one-character strings; a deprel such   *)
(* as "conj" is abbreviated to one letter.                                  *)
(***************************************************************************)
EXTENDS Integers, Sequences, FiniteSets, TLC

\* Largest number of non-root nodes a sentence grows to.
MaxNodes == 3

\* The divisor of the sub-position arithmetic of shift().
Scale == 100000

\* Python's None, for a node reference.
None == -1

\* The technical root: ord 0, no parent.
Root == 0

VARIABLES
    nnodes,        \* number of Node objects created by create_child
    ord,           \* ord[m]: integer part of node m's ord
    frac,          \* frac[m]: fractional part of m's ord, in units of 1/(2*Scale)
    _parent,       \* _parent[m]: parent node, or None
    _children,     \* _children[m]: list of child nodes
    _descendants,  \* the root's registry: list of all nodes of the sentence
    _raw_deps,     \* _raw_deps[m]: the raw string
    _deps,         \* _deps[m]: <<>> for None, <<list>> for a deserialized list
    parses,        \* parses[m]: deserializations of m's raw string since the last write
    written,       \* written[m]: the last value written to m's raw_deps or deps
    pc,            \* "ready", or "hung" when a call never returns
    last,          \* the last call: its name, the error it raised, what it returned
    deprel,        \* deprel[m]: the relation of m to its parent, or NoValue
    upos,          \* upos[m]: the universal part-of-speech tag of m, or NoValue
    feats,         \* feats[m]: the morphological features of m, name to value
    misc,          \* misc[m]: the object stored in the attribute misc of m
    stats          \* the MarkBugs block's counter: bug code to count

vars == <<nnodes, ord, frac, _parent, _children, _descendants, _raw_deps, _deps,
          parses, written, pc, last, deprel, upos, feats, misc, stats>>

markVars == <<deprel, upos, feats, misc, stats>>

treeVars == <<nnodes, ord, frac, _parent, _children, _descendants>>
depsVars == <<_raw_deps, _deps, parses>>

Ids == 0..MaxNodes
Created == 1..nnodes
AllNodes == 0..nnodes

\* One unit of the fixed-point representation of an ord: 1/(2*Scale).
Unit == 2 * Scale

\* The numeric value of every node's ord, in units of 1/(2*Scale).
Keys == [m \in Ids |-> Unit * ord[m] + frac[m]]

(***************************************************************************)
(* sorted(list, key=...): Python's sort is stable.                         *)
(***************************************************************************)
RECURSIVE InsertByKey(_, _, _)
InsertByKey(e, s, k) ==
    IF s = <<>> THEN <<e>>
    ELSE IF k[e] < k[Head(s)] THEN <<e>> \o s
    ELSE <<Head(s)>> \o InsertByKey(e, Tail(s), k)

RECURSIVE SortedBy(_, _)
SortedBy(s, k) ==
    IF s = <<>> THEN <<>>
    ELSE InsertByKey(s[Len(s)], SortedBy(SubSeq(s, 1, Len(s) - 1), k), k)

Range(s) == {s[i] : i \in 1..Len(s)}

IsSortedBy(s, k) == \A i \in 1..(Len(s) - 1) : k[s[i]] <= k[s[i + 1]]

\* The list comprehension keeping every node, self included.
Without_KeepsAll(s, e) == s

RECURSIVE Without(_, _)
Without(s, e) ==
    IF s = <<>> THEN <<>>
    ELSE IF Head(s) = e THEN Without(Tail(s), e)
    ELSE <<Head(s)>> \o Without(Tail(s), e)

(***************************************************************************)
(* Walks along the links.                                                  *)
(***************************************************************************)
\* The nodes reached from m by one or more steps along _children.
RECURSIVE BelowIn(_, _, _)
BelowIn(S, chi, fuel) ==
    LET T == S \cup UNION {Range(chi[c]) : c \in S}
    IN  IF fuel = 0 \/ T = S THEN S ELSE BelowIn(T, chi, fuel - 1)

Below(m) == BelowIn(Range(_children[m]), _children, MaxNodes + 1)

\* unordered_descendants() recurses forever when a cycle lies below m:
\* Python ends the call with RecursionError.
CycleBelow(m) == \E c \in Below(m) \cup {m} : c \in Below(c)

\* unordered_descendants(): depth-first, each child followed by its subtree.
RECURSIVE UnorderedOf(_, _)
RECURSIVE UnorderedOfList(_, _)
UnorderedOf(m, fuel) ==
    IF fuel = 0 THEN <<>> ELSE UnorderedOfList(_children[m], fuel)
UnorderedOfList(s, fuel) ==
    IF s = <<>> THEN <<>>
    ELSE <<Head(s)>> \o UnorderedOf(Head(s), fuel - 1) \o UnorderedOfList(Tail(s), fuel)

unordered_descendants(m) == UnorderedOf(m, MaxNodes + 1)

\* The root's own descendants accessor: the registry.
RootDescendants == _descendants

\* node.descendants: sorted by ord.
descendants(m) ==
    IF m = Root THEN RootDescendants ELSE SortedBy(unordered_descendants(m), Keys)

\* node.root: "while node.parent: node = node.parent".  The walk never ends
\* when the parent chain of m runs into a cycle.
RECURSIVE RootWalk(_, _, _)
RootWalk(node, par, fuel) ==
    IF par[node] = None THEN node
    ELSE IF fuel = 0 THEN None
    ELSE RootWalk(par[node], par, fuel - 1)

root(m) == RootWalk(m, _parent, MaxNodes + 1)

RootWalkHangs(m) == root(m) = None

\* is_descendant_of(): "climber = self.parent; while climber: ...".
RECURSIVE ClimbFinds(_, _, _)
ClimbFinds(climber, node, fuel) ==
    IF climber = None \/ fuel = 0 THEN FALSE
    ELSE IF climber = node THEN TRUE
    ELSE ClimbFinds(_parent[climber], node, fuel - 1)

is_descendant_of(m, node) == ClimbFinds(_parent[m], node, MaxNodes + 1)

\* m is its own ancestor through the parent chain.
OwnAncestor(m) == is_descendant_of(m, m)

(***************************************************************************)
(* The parent setter.                                                       *)
(***************************************************************************)
\* The truth value of the attribute node.is_root as the setter reads it:
\* the attribute is read, not called, and a function object is true.
is_root(node) == TRUE

\* "while not climbing_node.is_root: if climbing_node == self: raise ..."
RECURSIVE ClimbRaises(_, _, _, _)
ClimbRaises(climbing_node, self, par, fuel) ==
    IF is_root(climbing_node) THEN FALSE
    ELSE IF climbing_node = self THEN TRUE
    ELSE IF fuel = 0 THEN FALSE
    ELSE ClimbRaises(par[climbing_node], self, par, fuel - 1)

\* "raise ValueError('Could not set the node itself as a parent: ...')"
SelfParentError == "ValueError"

\* "raise Exception('Setting the parent would lead to a loop: ...')"
CycleError == "Exception"

\* The setter without its test "if self == new_parent".
ParentSetter_NoSelfTest(self, new_parent, par, chi, k) ==
    IF par[self] = new_parent
    THEN [err |-> "none", parent |-> par, children |-> chi]
    ELSE LET detached ==
                 IF par[self] # None
                 THEN [chi EXCEPT ![par[self]] = Without(chi[par[self]], self)]
                 ELSE chi
         IN  [err |-> "none",
              parent |-> [par EXCEPT ![self] = new_parent],
              children |-> [detached EXCEPT ![new_parent] =
                               SortedBy(detached[new_parent] \o <<self>>, k)]]

\* The setter on the links par, chi with the ords k: the error raised and
\* the links it leaves.
ParentSetter(self, new_parent, par, chi, k) ==
    IF par[self] = new_parent
    THEN [err |-> "none", parent |-> par, children |-> chi]
    ELSE IF self = new_parent
    THEN [err |-> SelfParentError, parent |-> par, children |-> chi]
    ELSE IF ClimbRaises(new_parent, self, par, MaxNodes + 1)
    THEN [err |-> CycleError, parent |-> par, children |-> chi]
    ELSE LET detached ==
                 IF par[self] # None
                 THEN [chi EXCEPT ![par[self]] = Without(chi[par[self]], self)]
                 ELSE chi
         IN  [err |-> "none",
              parent |-> [par EXCEPT ![self] = new_parent],
              children |-> [detached EXCEPT ![new_parent] =
                               SortedBy(detached[new_parent] \o <<self>>, k)]]

\* A call on node self: the error it raised ("none" when it returned) and,
\* wrapped in a list, what it returned.
\* hit: a deps read answered from the cached list.
Call(op, self, err, ret) ==
    [op |-> op, self |-> self, err |-> err, ret |-> ret, hit |-> FALSE]

(***************************************************************************)
(* The values of the annotation attributes of a node.                      *)
(***************************************************************************)
\* Python's None, for an attribute that holds a string.
NoValue == "None"

\* The feature names the block looks up.
FeatNames == {"PronType", "NumType", "VerbForm", "Mood", "Degree"}

\* Feats(): no feature set; looking a feature up gives the empty string.
NoFeats == [f \in FeatNames |-> ""]

\* The short messages the block logs.
Codes ==
    {"aux-chain", "fixed-chain", "appos-chain", "cop-upos", "mark-upos",
     "det-upos", "punct-upos", "no-PronType", "no-NumType", "no-VerbForm",
     "finverb-upos", "finverb-mood", "degree-upos", "multi-subj", "multi-obj",
     "adp-child", "punct-child"}

\* The objects the attribute misc holds: None (as the constructor leaves
\* it), a text, or a dict, whose key 'Bug', when present, holds a text.  The
\* text of 'Bug' is the sequence of its codes and commas.
MiscNone == [kind |-> "None", has |-> FALSE, Bug |-> <<>>]
MiscText == [kind |-> "str", has |-> FALSE, Bug |-> <<>>]
MiscDict(has, bug) == [kind |-> "dict", has |-> has, Bug |-> bug]

Init ==
    /\ nnodes = 0
    /\ ord = [m \in Ids |-> 0]
    /\ frac = [m \in Ids |-> 0]
    /\ _parent = [m \in Ids |-> None]
    /\ _children = [m \in Ids |-> <<>>]
    /\ _descendants = <<>>
    /\ _raw_deps = [m \in Ids |-> <<"_">>]
    /\ _deps = [m \in Ids |-> <<>>]
    /\ parses = [m \in Ids |-> 0]
    /\ written = [m \in Ids |-> [form |-> "none", value |-> <<>>]]
    /\ pc = "ready"
    /\ last = Call("init", None, "none", <<>>)
    /\ deprel = [m \in Ids |-> NoValue]
    /\ upos = [m \in Ids |-> NoValue]
    /\ feats = [m \in Ids |-> NoFeats]
    /\ misc = [m \in Ids |-> MiscNone]
    /\ stats = [c \in Codes |-> 0]

\* node.parent = new_parent, for a non-root node.
SetParent(self, new_parent) ==
    /\ pc = "ready"
    /\ LET r == ParentSetter(self, new_parent, _parent, _children, Keys)
       IN  /\ _parent' = r.parent
           /\ _children' = r.children
           /\ last' = Call("parent", self, r.err, <<>>)
    /\ UNCHANGED <<markVars, nnodes, ord, frac, _descendants, depsVars, written, pc>>

\* The ord of a new node taken as the length of the registry.
NewOrd_Length == Len(_descendants)

\* "new_node.ord = len(self.root._descendants) + 1"
NewOrd == Len(_descendants) + 1

\* self.create_child()
CreateChild(self) ==
    /\ pc = "ready"
    /\ nnodes < MaxNodes
    /\ IF RootWalkHangs(self)
       THEN /\ pc' = "hung"
            /\ last' = Call("create_child", self, "hang", <<>>)
            /\ UNCHANGED <<markVars, treeVars, depsVars, written>>
       ELSE LET new_node == nnodes + 1
                new_ord == [ord EXCEPT ![new_node] = NewOrd]
                r == ParentSetter(new_node, self, _parent, _children,
                                  [m \in Ids |-> Unit * new_ord[m] + frac[m]])
            IN  /\ nnodes' = new_node
                /\ ord' = new_ord
                /\ _descendants' = Append(_descendants, new_node)
                /\ _parent' = r.parent
                /\ _children' = r.children
                /\ last' = Call("create_child", self, r.err, <<new_node>>)
                /\ UNCHANGED <<markVars, frac, depsVars, written, pc>>

(***************************************************************************)
(* Reordering.                                                             *)
(***************************************************************************)
\* The loop over the reference node's subtree left out: the ord of the
\* reference node itself.
ReferenceOrd_NodeOnly(nodes, after, reference_ord) == reference_ord

\* The loop over the reference node's subtree: the largest (after) or the
\* smallest (before) ord among the reference node and nodes.
RECURSIVE ReferenceOrd(_, _, _)
ReferenceOrd(nodes, after, reference_ord) ==
    IF nodes = <<>> THEN reference_ord
    ELSE LET node == Head(nodes)
         IN  IF (after /\ ord[node] > reference_ord)
                \/ (~after /\ ord[node] < reference_ord)
             THEN ReferenceOrd(Tail(nodes), after, ord[node])
             ELSE ReferenceOrd(Tail(nodes), after, reference_ord)

\* "for node_to_move in nodes_to_move: node_to_move.ord = reference_ord +
\* common_delta + (node_to_move.ord - self.ord) / 100000."  The ords are
\* written one after the other, so self.ord is read as already written.
\* k and target are in units of 1/(2*Scale); the division is exact (the
\* floating-point rounding of the code is not modelled).
RECURSIVE AssignKeys(_, _, _, _)
AssignKeys(nodes_to_move, self, target, k) ==
    IF nodes_to_move = <<>> THEN k
    ELSE LET node_to_move == Head(nodes_to_move)
         IN  AssignKeys(Tail(nodes_to_move), self, target,
                        [k EXCEPT ![node_to_move] =
                            target + (k[node_to_move] - k[self]) \div Scale])

\* The ords shift() writes before it asks the root to renumber.
ShiftKeys(self, reference_node, after, move_subtree, reference_subtree) ==
    LET nodes_to_move ==
            <<self>> \o (IF move_subtree THEN descendants(self) ELSE <<>>)
        reference_ord ==
            IF reference_subtree
            THEN ReferenceOrd(Without(descendants(reference_node), self), after,
                              ord[reference_node])
            ELSE ord[reference_node]
        common_delta == IF after THEN Scale ELSE 0 - Scale
    IN  AssignKeys(nodes_to_move, self, Unit * reference_ord + common_delta, Keys)

\* The registry the root's renumbering pass builds from the ords k: the
\* nodes below the root, sorted by ord.
UpdatedRegistry(k) == SortedBy(unordered_descendants(Root), k)

\* Position of m in the list s (1-based).
IndexOf(s, m) == CHOOSE i \in 1..Len(s) : s[i] = m

\* self.shift(reference_node, after, move_subtree, reference_subtree)
Shift(op, self, reference_node, after, move_subtree, reference_subtree) ==
    /\ pc = "ready"
    /\ IF \/ move_subtree /\ CycleBelow(self)
          \/ reference_subtree /\ reference_node # Root /\ CycleBelow(reference_node)
       THEN /\ last' = Call(op, self, "RecursionError", <<>>)
            /\ UNCHANGED <<markVars, treeVars, depsVars, written, pc>>
       ELSE \E k \in {ShiftKeys(self, reference_node, after, move_subtree,
                                reference_subtree)} :
                IF RootWalkHangs(self)
                THEN /\ pc' = "hung"
                     /\ ord' = [m \in Ids |-> k[m] \div Unit]
                     /\ frac' = [m \in Ids |-> k[m] % Unit]
                     /\ last' = Call(op, self, "hang", <<>>)
                     /\ UNCHANGED <<markVars, nnodes, _parent, _children, _descendants, depsVars, written>>
                ELSE \E reg \in {UpdatedRegistry(k)} :
                         /\ _descendants' = reg
                         /\ ord' = [m \in Ids |-> IF m \in Range(reg)
                                                  THEN IndexOf(reg, m)
                                                  ELSE k[m] \div Unit]
                         /\ frac' = [m \in Ids |-> IF m \in Range(reg)
                                                   THEN 0 ELSE k[m] % Unit]
                         /\ last' = Call(op, self, "none", <<>>)
                         /\ UNCHANGED <<markVars, nnodes, _parent, _children, depsVars, written, pc>>

shift_after_node(self, reference_node) ==
    Shift("shift_after_node", self, reference_node, TRUE, TRUE, FALSE)

shift_before_node(self, reference_node) ==
    Shift("shift_before_node", self, reference_node, FALSE, TRUE, FALSE)

shift_after_subtree(self, reference_node, without_children) ==
    Shift("shift_after_subtree", self, reference_node, TRUE, ~without_children, TRUE)

shift_before_subtree(self, reference_node, without_children) ==
    Shift("shift_before_subtree", self, reference_node, FALSE, ~without_children, TRUE)

\* Any created node is moved next to any node, the root included.  The root
\* is never the node that moves: it keeps ord 0.
ShiftNext ==
    \/ \E self \in Created, reference_node \in AllNodes :
           shift_after_node(self, reference_node)
    \/ \E self \in Created, reference_node \in AllNodes :
           shift_before_node(self, reference_node)
    \/ \E self \in Created, reference_node \in AllNodes, without_children \in BOOLEAN :
           shift_after_subtree(self, reference_node, without_children)
    \/ \E self \in Created, reference_node \in AllNodes, without_children \in BOOLEAN :
           shift_before_subtree(self, reference_node, without_children)

(***************************************************************************)
(* Enhanced dependencies: the raw string and the deserialized list.        *)
(***************************************************************************)
Digits == <<"0", "1", "2", "3", "4", "5", "6", "7", "8", "9">>

IsDigit(c) == \E i \in 1..Len(Digits) : Digits[i] = c

DigitValue(c) == (CHOOSE i \in 1..Len(Digits) : Digits[i] = c) - 1

\* str.split(sep): the pieces between the separators; no separator, one piece.
RECURSIVE split(_, _)
split(s, sep) ==
    IF \A i \in 1..Len(s) : s[i] # sep THEN <<s>>
    ELSE LET i == CHOOSE j \in 1..Len(s) :
                      s[j] = sep /\ \A l \in 1..(j - 1) : s[l] # sep
         IN  <<SubSeq(s, 1, i - 1)>> \o split(SubSeq(s, i + 1, Len(s)), sep)

\* "sep.join(list)"
RECURSIVE join(_, _)
join(sep, list) ==
    IF list = <<>> THEN <<>>
    ELSE IF Len(list) = 1 THEN list[1]
    ELSE list[1] \o <<sep>> \o join(sep, Tail(list))

\* int(s) accepts an optional sign and then one or more digits.
RECURSIVE DigitsValue(_, _)
DigitsValue(s, acc) ==
    IF s = <<>> THEN acc ELSE DigitsValue(Tail(s), 10 * acc + DigitValue(Head(s)))

IsIntLiteral(s) ==
    LET body == IF s # <<>> /\ Head(s) = "-" THEN Tail(s) ELSE s
    IN  body # <<>> /\ \A i \in 1..Len(body) : IsDigit(body[i])

int(s) ==
    IF Head(s) = "-" THEN 0 - DigitsValue(Tail(s), 0) ELSE DigitsValue(s, 0)

\* '%d' % n
RECURSIVE NaturalDigits(_)
NaturalDigits(n) ==
    IF n < 10 THEN <<Digits[n + 1]>>
    ELSE NaturalDigits(n \div 10) \o <<Digits[(n % 10) + 1]>>

FormatD(n) == IF n < 0 THEN <<"-">> \o NaturalDigits(0 - n) ELSE NaturalDigits(n)

\* The loop of the deps getter over the entries of the raw string, with the
\* list built so far: each entry is split at ':' into exactly head and
\* deprel, the head is converted by int() and indexes nodes as a Python
\* list is indexed (a negative index counts from the end).  An exception
\* leaves in _deps the entries appended before it.
RECURSIVE Deserialize(_, _, _)
Deserialize(entries, nodes, built) ==
    IF entries = <<>> THEN [err |-> "none", deps |-> built]
    ELSE LET pieces == split(Head(entries), ":")
         IN  IF Len(pieces) # 2 \/ ~IsIntLiteral(pieces[1])
             THEN [err |-> "ValueError", deps |-> built]
             ELSE LET head == int(pieces[1])
                      index == IF head < 0 THEN head + Len(nodes) ELSE head
                  IN  IF index < 0 \/ index >= Len(nodes)
                      THEN [err |-> "IndexError", deps |-> built]
                      ELSE Deserialize(Tail(entries), nodes,
                               Append(built, [parent |-> nodes[index + 1],
                                              deprel |-> pieces[2]]))

\* "nodes = [self.root] + self.root.descendants()"
AllTreeNodes(self) == <<root(self)>> \o descendants(root(self))

\* What the deps getter computes from the raw string raw when nothing is cached.
DeserializeRaw(self, raw) ==
    IF raw = <<"_">> THEN [err |-> "none", deps |-> <<>>]
    ELSE Deserialize(split(raw, "|"), AllTreeNodes(self), <<>>)

\* The raw_deps getter's serialization of a deserialized list.
RECURSIVE SerializedDeps(_)
SerializedDeps(list) ==
    IF list = <<>> THEN <<>>
    ELSE <<FormatD(ord[list[1].parent]) \o <<":">> \o list[1].deprel>>
         \o SerializedDeps(Tail(list))

Serialize(list) == join("|", SerializedDeps(list))

\* Deserializations counted up to this number.
MaxParses == 2

\* The raw strings written in the model.
RawInputs ==
    { <<"_">>,
      <<"1", ":", "c">>,
      <<"2", ":", "c", "|", "1", ":", "n">>,
      <<"0", ":", "r">>,
      <<"1", ":", "n", ":", "p">>,
      <<"0", "1", ":", "c">>,
      <<"-", "1", ":", "c">>,
      <<"1", ":", "c", "|", "9", ":", "n">> }

\* The lists written in the model, over the nodes that exist.
DepsInputs ==
    { list \in { <<>>,
                 <<[parent |-> 1, deprel |-> <<"c">>]>>,
                 <<[parent |-> 2, deprel |-> <<"c">>], [parent |-> 0, deprel |-> <<"r">>]>> } :
        \A i \in 1..Len(list) : list[i].parent \in AllNodes }

\* node.raw_deps = value
SetRawDeps(self, value) ==
    /\ pc = "ready"
    /\ _raw_deps' = [_raw_deps EXCEPT ![self] = value]
    /\ _deps' = [_deps EXCEPT ![self] = <<>>]
    /\ parses' = [parses EXCEPT ![self] = 0]
    /\ written' = [written EXCEPT ![self] = [form |-> "raw_deps", value |-> value]]
    /\ last' = Call("raw_deps=", self, "none", <<>>)
    /\ UNCHANGED <<markVars, treeVars, pc>>

\* node.deps = value
SetDeps(self, value) ==
    /\ pc = "ready"
    /\ _deps' = [_deps EXCEPT ![self] = <<value>>]
    /\ parses' = [parses EXCEPT ![self] = 0]
    /\ written' = [written EXCEPT ![self] = [form |-> "deps", value |-> value]]
    /\ last' = Call("deps=", self, "none", <<>>)
    /\ UNCHANGED <<markVars, treeVars, _raw_deps, pc>>

\* The test "if self._deps is None" of the deps getter.
NothingCached_Always(self) == TRUE

NothingCached(self) == _deps[self] = <<>>

\* node.deps
GetDeps(self) ==
    /\ pc = "ready"
    /\ IF ~NothingCached(self)
       THEN /\ last' = [Call("deps", self, "none", <<_deps[self][1]>>)
                          EXCEPT !.hit = TRUE]
            /\ UNCHANGED <<markVars, treeVars, depsVars, written, pc>>
       ELSE IF RootWalkHangs(self)
       THEN /\ pc' = "hung"
            /\ last' = Call("deps", self, "hang", <<>>)
            /\ UNCHANGED <<markVars, treeVars, depsVars, written>>
       ELSE LET r == DeserializeRaw(self, _raw_deps[self])
            IN  /\ _deps' = [_deps EXCEPT ![self] = <<r.deps>>]
                /\ parses' = [parses EXCEPT ![self] =
                                 IF @ < MaxParses THEN @ + 1 ELSE @]
                /\ last' = Call("deps", self, r.err,
                                IF r.err = "none" THEN <<r.deps>> ELSE <<>>)
                /\ UNCHANGED <<markVars, treeVars, _raw_deps, written, pc>>

\* node.raw_deps
GetRawDeps(self) ==
    /\ pc = "ready"
    /\ LET value == IF _deps[self] # <<>> THEN Serialize(_deps[self][1])
                    ELSE _raw_deps[self]
       IN  /\ _raw_deps' = [_raw_deps EXCEPT ![self] = value]
           /\ last' = Call("raw_deps", self, "none", <<value>>)
    /\ UNCHANGED <<markVars, treeVars, _deps, parses, written, pc>>

\* The nodes whose enhanced dependencies the model writes and reads: the
\* first node created (its heads may be any node of the sentence).
DepsNodes == Created \cap {1}

DepsNext ==
    \/ \E self \in DepsNodes, value \in RawInputs : SetRawDeps(self, value)
    \/ \E self \in DepsNodes, value \in DepsInputs : SetDeps(self, value)
    \/ \E self \in DepsNodes : GetDeps(self)
    \/ \E self \in DepsNodes : GetRawDeps(self)

(***************************************************************************)
(* The block ud.MarkBugs (src/udapi/block/ud/markbugs.py) and the node     *)
(* attributes it reads and writes.                                         *)
(***************************************************************************)
\* One step of process_node: a call of log, or an exception raised by the
\* rule itself.
LogStep(code) == [kind |-> "log", code |-> code, err |-> "none"]
RaiseStep(err) == [kind |-> "raise", code |-> "none", err |-> err]

\* dep + '-chain'
ChainCode(dep) ==
    CASE dep = "aux" -> "aux-chain"
      [] dep = "fixed" -> "fixed-chain"
      [] OTHER -> "appos-chain"

\* 'no-' + i_feat
NoFeatCode(i_feat) ==
    CASE i_feat = "PronType" -> "no-PronType"
      [] i_feat = "NumType" -> "no-NumType"
      [] OTHER -> "no-VerbForm"

\* REQUIRED_FEATURE_FOR_UPOS, in the order of the dict.
REQUIRED_FEATURE_FOR_UPOS ==
    << <<"PRON", "PronType">>, <<"DET", "PronType">>,
       <<"NUM", "NumType">>, <<"VERB", "VerbForm">> >>

\* 'subj' in deprel, for the relations of the model.
ContainsSubj(d) == d \in {"nsubj", "csubj", "nsubj:pass", "csubj:pass"}

\* "for dep in ('aux', 'fixed', 'appos'): if deprel == dep and parent.deprel == dep"
ChainSteps(node) ==
    IF deprel[node] \notin {"aux", "fixed", "appos"} THEN <<>>
    ELSE IF _parent[node] = None THEN <<RaiseStep("AttributeError")>>
    ELSE IF deprel[_parent[node]] = deprel[node]
    THEN <<LogStep(ChainCode(deprel[node]))>>
    ELSE <<>>

\* "for dep in ('flat', 'fixed', 'conj', 'appos'): if deprel == dep and
\* node.precedes(parent)": class Node has no attribute precedes.
RightheadedSteps(node) ==
    IF deprel[node] \in {"flat", "fixed", "conj", "appos"}
    THEN <<RaiseStep("AttributeError")>>
    ELSE <<>>

\* The four rules on deprel and upos.
UposSteps(node) ==
    (IF deprel[node] = "cop" /\ upos[node] \notin {"AUX", "PRON"}
     THEN <<LogStep("cop-upos")>> ELSE <<>>)
    \o (IF deprel[node] = "mark" /\ upos[node] = "PRON"
        THEN <<LogStep("mark-upos")>> ELSE <<>>)
    \o (IF deprel[node] = "det" /\ upos[node] \notin {"DET", "PRON"}
        THEN <<LogStep("det-upos")>> ELSE <<>>)
    \o (IF deprel[node] = "punct" /\ upos[node] # "PUNCT"
        THEN <<LogStep("punct-upos")>> ELSE <<>>)

\* "for i_upos, i_feat in REQUIRED_FEATURE_FOR_UPOS.items()"
RECURSIVE RequiredSteps(_, _)
RequiredSteps(node, items) ==
    IF items = <<>> THEN <<>>
    ELSE (IF upos[node] = Head(items)[1] /\ feats[node][Head(items)[2]] = ""
          THEN <<LogStep(NoFeatCode(Head(items)[2]))>> ELSE <<>>)
         \o RequiredSteps(node, Tail(items))

\* The rules on the features VerbForm, Mood and Degree.
FeatSteps(node) ==
    (IF feats[node]["VerbForm"] = "Fin"
     THEN (IF upos[node] \notin {"VERB", "AUX"}
           THEN <<LogStep("finverb-upos")>> ELSE <<>>)
          \o (IF feats[node]["Mood"] = ""
              THEN <<LogStep("finverb-mood")>> ELSE <<>>)
     ELSE <<>>)
    \o (IF feats[node]["Degree"] # "" /\ upos[node] \notin {"ADJ", "ADV"}
        THEN <<LogStep("degree-upos")>> ELSE <<>>)

\* "n.deprel in ('obj', 'ccomp')"
IsObject(d) == d \in {"obj", "ccomp"}

\* len(subject_children)
NumSubjectChildren(node) ==
    Cardinality({i \in 1..Len(_children[node]) :
                    ContainsSubj(deprel[_children[node][i]])})

\* len(object_children)
NumObjectChildren(node) ==
    Cardinality({i \in 1..Len(_children[node]) :
                    IsObject(deprel[_children[node][i]])})

\* The rules on the children: "'subj' in n.deprel" raises TypeError for a
\* child whose deprel is None.
ChildrenSteps(node) ==
    IF \E i \in 1..Len(_children[node]) : deprel[_children[node][i]] = NoValue
    THEN <<RaiseStep("TypeError")>>
    ELSE (IF NumSubjectChildren(node) > 1
          THEN <<LogStep("multi-subj")>> ELSE <<>>)
         \o (IF NumObjectChildren(node) > 1
             THEN <<LogStep("multi-obj")>> ELSE <<>>)

\* The two rules on the parent's upos and deprel.
ParentSteps(node) ==
    IF _parent[node] = None THEN <<RaiseStep("AttributeError")>>
    ELSE (IF upos[_parent[node]] = "ADP"
             /\ deprel[node] \notin {"conj", "cc", "punct", "fixed"}
          THEN <<LogStep("adp-child")>> ELSE <<>>)
         \o (IF deprel[_parent[node]] = "punct"
             THEN <<LogStep("punct-child")>> ELSE <<>>)

\* The steps of process_node(node), in the order of the code.
RuleSteps(node) ==
    ChainSteps(node) \o RightheadedSteps(node) \o UposSteps(node)
    \o RequiredSteps(node, REQUIRED_FEATURE_FOR_UPOS) \o FeatSteps(node)
    \o ChildrenSteps(node) \o ParentSteps(node)

\* log(node, short_msg, long_msg) on the misc object m and the counter st:
\* the subscript misc['Bug'] raises TypeError on None and on a text, and
\* KeyError on a dict without the key.
log(node, short_msg, m, st) ==
    IF m.kind \in {"None", "str"} THEN [err |-> "TypeError", misc |-> m, stats |-> st]
    ELSE IF ~m.has THEN [err |-> "KeyError", misc |-> m, stats |-> st]
    ELSE [err |-> "none",
          misc |-> [m EXCEPT !.Bug = IF @ # <<>> THEN @ \o <<",", short_msg>>
                                     ELSE <<short_msg>>],
          stats |-> [st EXCEPT ![short_msg] = @ + 1]]

\* The steps run one after the other until one raises.
RECURSIVE RunSteps(_, _, _, _)
RunSteps(node, steps, m, st) ==
    IF steps = <<>> THEN [err |-> "none", misc |-> m, stats |-> st]
    ELSE IF Head(steps).kind = "raise"
    THEN [err |-> Head(steps).err, misc |-> m, stats |-> st]
    ELSE LET r == log(node, Head(steps).code, m, st)
         IN  IF r.err # "none" THEN r
             ELSE RunSteps(node, Tail(steps), r.misc, r.stats)

\* The codes of the text bug, without the commas.
CodesOf(bug) == {bug[i] : i \in {j \in 1..Len(bug) : bug[j] # ","}}

\* Messages logged by the block are counted up to this number.
MaxLogs == 2

RECURSIVE SumOver(_, _)
SumOver(st, S) ==
    IF S = {} THEN 0
    ELSE LET c == CHOOSE x \in S : TRUE IN st[c] + SumOver(st, S \ {c})

\* The annotations given to a node: deprel, upos and feats.
Tokens ==
    { [deprel |-> "cop", upos |-> "VERB", feats |-> [NoFeats EXCEPT !["VerbForm"] = "Inf"]],
      [deprel |-> "cop", upos |-> "VERB", feats |-> NoFeats],
      [deprel |-> "cop", upos |-> "AUX", feats |-> NoFeats],
      [deprel |-> "nsubj", upos |-> "PRON", feats |-> [NoFeats EXCEPT !["PronType"] = "Prs"]],
      [deprel |-> "conj", upos |-> "VERB", feats |-> [NoFeats EXCEPT !["VerbForm"] = "Inf"]] }

\* The objects assigned to misc.
MiscInputs == {MiscText, MiscDict(FALSE, <<>>), MiscDict(TRUE, <<>>)}

\* node.deprel, node.upos, node.feats = ...
SetAnnotation(self, token) ==
    /\ pc = "ready"
    /\ deprel' = [deprel EXCEPT ![self] = token.deprel]
    /\ upos' = [upos EXCEPT ![self] = token.upos]
    /\ feats' = [feats EXCEPT ![self] = token.feats]
    /\ last' = Call("annotate", self, "none", <<>>)
    /\ UNCHANGED <<treeVars, depsVars, written, pc, misc, stats>>

\* node.misc = value
SetMisc(self, value) ==
    /\ pc = "ready"
    /\ misc' = [misc EXCEPT ![self] = value]
    /\ last' = Call("misc=", self, "none", <<>>)
    /\ UNCHANGED <<treeVars, depsVars, written, pc, deprel, upos, feats, stats>>

\* MarkBugs.process_node(node)
process_node(node) ==
    /\ pc = "ready"
    /\ SumOver(stats, Codes) < MaxLogs
    /\ \E r \in {RunSteps(node, RuleSteps(node), misc[node], stats)} :
           /\ misc' = [misc EXCEPT ![node] = r.misc]
           /\ stats' = r.stats
           /\ last' = Call("process_node", node, r.err, <<>>)
    /\ UNCHANGED <<treeVars, depsVars, written, pc, deprel, upos, feats>>

\* The block is run on sentences of up to this number of nodes.
MaxMarked == 2

MarkNext ==
    \/ \E self \in AllNodes : nnodes < MaxMarked /\ CreateChild(self)
    \/ \E self \in Created, token \in Tokens : SetAnnotation(self, token)
    \/ \E self \in Created, value \in MiscInputs : SetMisc(self, value)
    \/ \E node \in Created : process_node(node)

\* Growth, annotation, and the block's pass over nodes.
SpecMark == Init /\ [][MarkNext]_vars

(***************************************************************************)
(* Removal, the neighbours in word order, and the filtered lists.          *)
(***************************************************************************)
\* self.remove(): "self.parent.children = [...]" assigns to the property
\* children, which has no setter (and None has no attribute children):
\* AttributeError, before anything is changed and before the root renumbers.
remove(self) ==
    /\ pc = "ready"
    /\ last' = Call("remove", self, "AttributeError", <<>>)
    /\ UNCHANGED <<markVars, treeVars, depsVars, written, pc>>

\* What a property read gives: the error raised ("none" when it returned)
\* and the value returned.
Returned(value) == [err |-> "none", ret |-> value]
Raised(err) == [err |-> err, ret |-> None]

\* node.prev_node
prev_node(self) ==
    LET new_ord == ord[self] - 1
    IN  IF new_ord < 0 THEN Returned(None)
        ELSE IF RootWalkHangs(self) THEN Raised("hang")
        ELSE IF new_ord = 0 THEN Returned(root(self))
        ELSE IF ord[self] - 1 >= Len(_descendants) THEN Raised("IndexError")
        ELSE Returned(_descendants[(ord[self] - 1) + 1])

\* node.next_node
next_node(self) ==
    IF RootWalkHangs(self) THEN Raised("hang")
    ELSE IF ord[self] >= Len(_descendants) THEN Returned(None)
    ELSE Returned(_descendants[ord[self] + 1])

\* ListOfNodes.__call__ on the list self with the origin origin.
ListOfNodes_call(self, origin, add_self, following_only, preceding_only) ==
    IF ~add_self /\ ~following_only /\ ~preceding_only THEN self
    ELSE LET added == IF add_self THEN Append(self, origin) ELSE self
             \* "[x for x in result if x.ord <= self.origin.ord]", and ">="
             NotAfter(x) == Keys[x] <= Keys[origin]
             NotBefore(x) == Keys[x] >= Keys[origin]
             preceding == IF preceding_only THEN SelectSeq(added, NotAfter) ELSE added
             following == IF following_only THEN SelectSeq(preceding, NotBefore)
                          ELSE preceding
         IN  SortedBy(following, Keys)

\* node.children(...)
children(self, add_self, following_only, preceding_only) ==
    Returned(ListOfNodes_call(_children[self], self, add_self, following_only,
                              preceding_only))

\* node.descendants(...): the walk over the subtree of a node other than the
\* root ends with RecursionError when a cycle lies below the node.
descendants_call(self, add_self, following_only, preceding_only) ==
    IF self # Root /\ CycleBelow(self) THEN Raised("RecursionError")
    ELSE Returned(ListOfNodes_call(descendants(self), self, add_self,
                                   following_only, preceding_only))

\* The climb of is_descendant_of(node) from climber never ends: the parent
\* chain runs into a cycle that node is not on.
RECURSIVE ClimbHangs(_, _, _)
ClimbHangs(climber, node, fuel) ==
    IF climber = None \/ climber = node THEN FALSE
    ELSE IF fuel = 0 THEN TRUE
    ELSE ClimbHangs(_parent[climber], node, fuel - 1)

\* Any node gets a new child; any created node is given any node as parent.
\* The root is never given a parent.
TreeNext ==
    \/ \E self \in AllNodes : CreateChild(self)
    \/ \E self \in Created, new_parent \in AllNodes : SetParent(self, new_parent)

Next == TreeNext \/ ShiftNext

\* The tree operations: growth, reparenting, reordering.
Spec == Init /\ [][Next]_vars

\* Growth and reordering only.
OrdNext == (\E self \in AllNodes : CreateChild(self)) \/ ShiftNext

SpecOrd == Init /\ [][OrdNext]_vars

\* Growth and the shifts after a subtree; shifting single nodes after the
\* root's subtree (to the end of the sentence) reaches every word order.
AfterSubtreeNext ==
    \/ \E self \in AllNodes : CreateChild(self)
    \/ \E self \in Created, reference_node \in AllNodes, without_children \in BOOLEAN :
           shift_after_subtree(self, reference_node, without_children)

SpecAfterSubtree == Init /\ [][AfterSubtreeNext]_vars

\* Growth, reparenting, and removal.
TreeRemoveNext == TreeNext \/ (\E self \in Created : remove(self))

SpecTree == Init /\ [][TreeRemoveNext]_vars

\* Growth, reordering, and the enhanced dependencies of a node.
DepsShiftNext ==
    \/ \E self \in AllNodes : CreateChild(self)
    \/ \E self \in Created, reference_node \in AllNodes :
           shift_before_node(self, reference_node)
    \/ \E self \in DepsNodes, value \in RawInputs : SetRawDeps(self, value)
    \/ \E self \in DepsNodes : GetDeps(self)
    \/ \E self \in DepsNodes : GetRawDeps(self)

SpecDepsShift == Init /\ [][DepsShiftNext]_vars

\* Growth, reparenting, and the enhanced dependencies of a node.
DepsTreeNext == TreeNext \/ DepsNext

SpecDeps == Init /\ [][DepsTreeNext]_vars

(***************************************************************************)
(* Properties.                                                             *)
(***************************************************************************)
\* C1: after any sequence of parent assignments the setter accepts, no node
\* is its own ancestor through the parent chain.
C1_Acyclic == \A m \in AllNodes : ~OwnAncestor(m)

\* C2: for every node n and every proper descendant d of n in a well-formed
\* tree, the assignment n.parent = d raises the cycle error and leaves every
\* parent link and every children list as it was.
C2_CycleRejectedAtomically ==
    [][\A n \in Created, d \in Created :
          (C1_Acyclic /\ n # d /\ is_descendant_of(d, n) /\ SetParent(n, d))
              => (last'.err = CycleError /\ UNCHANGED <<_parent, _children>>)]_vars

\* C3: for every node n, the assignment n.parent = n raises the self-parent
\* error, which is another kind than the cycle error, and leaves every
\* parent link and every children list as it was.
C3_SelfParentRejected ==
    [][\A n \in Created :
          SetParent(n, n)
              => (/\ last'.err = SelfParentError
                  /\ last'.err # CycleError
                  /\ UNCHANGED <<_parent, _children>>)]_vars

\* A node with a parent and a child has just been assigned itself as parent
\* (in the model only that assignment raises the self-parent error).
C3_Witness ==
    /\ last.op = "parent"
    /\ last.err = SelfParentError
    /\ _parent[last.self] # None
    /\ _children[last.self] # <<>>

\* C4: after every accepted mutation, the children list of every node is
\* sorted ascending by the nodes' current ord.
C4_ChildrenSorted ==
    pc = "ready" => \A m \in AllNodes : IsSortedBy(_children[m], Keys)

\* C5: after any sequence of create_child and shift operations, the ords of
\* the n registered non-root nodes are exactly 1..n without duplicates, all
\* integers, and the node at registry position i (from 0) has ord i+1.
C5_OrdsGapFree ==
    pc = "ready" =>
        /\ Len(_descendants) = nnodes
        /\ Range(_descendants) = Created
        /\ \A i \in 1..Len(_descendants) :
               ord[_descendants[i]] = i /\ frac[_descendants[i]] = 0
        /\ {ord[m] : m \in Created} = 1..nnodes

\* A shift has moved a node of a three-node sentence away from the place it
\* was created at.
C5_Witness ==
    /\ last.op \in {"shift_after_node", "shift_before_node",
                    "shift_after_subtree", "shift_before_subtree"}
    /\ last.err = "none"
    /\ nnodes >= 3
    /\ \E m \in Created : ord[m] # m

\* The head of an entry "h:r": the text before its first ':'.
EntryHead(entry) == split(entry, ":")[1]

\* The deprel of an entry "h:r": the text after its first ':'.
EntryDeprel(entry) == SubSeq(entry, Len(EntryHead(entry)) + 2, Len(entry))

\* The ords of the registered nodes, the root's 0 included.
RegisteredOrds == {0} \cup {ord[_descendants[i]] : i \in 1..Len(_descendants)}

\* raw is a non-empty list of entries "h:r" joined by '|', every h the ord
\* of a registered node and every r a non-empty deprel.
EntriesOfRegistered(raw) ==
    /\ raw # <<"_">>
    /\ \A i \in 1..Len(split(raw, "|")) :
           LET entry == split(raw, "|")[i]
           IN  /\ Len(split(entry, ":")) >= 2
               /\ \E o \in RegisteredOrds : EntryHead(entry) = FormatD(o)
               /\ EntryDeprel(entry) # <<>>

\* C6: after raw_deps = s, with s a non-empty list of entries "h:r" whose
\* heads are ords of registered nodes, the read of deps that deserializes s
\* returns, and a read of raw_deps right after it returns s.
C6_RoundTrip ==
    [][\A x \in DepsNodes :
          (written[x].form = "raw_deps" /\ EntriesOfRegistered(written[x].value))
              => /\ (GetDeps(x) /\ NothingCached(x)) => last'.err = "none"
                 /\ (last.op = "deps" /\ last.self = x /\ last.err = "none"
                        /\ ~last.hit /\ GetRawDeps(x))
                        => last'.ret = <<written[x].value>>]_vars

\* The node whose current ord is o.
NodeAtOrd(o) == CHOOSE m \in {Root} \cup Range(_descendants) : ord[m] = o

\* The pairs the entries of raw name, in entry order.
ResolvedEntries(raw) ==
    [i \in 1..Len(split(raw, "|")) |->
        LET entry == split(raw, "|")[i]
        IN  [parent |-> NodeAtOrd(int(EntryHead(entry))),
             deprel |-> EntryDeprel(entry)]]

\* C7: in every reachable tree state, a read of deps of a node whose raw
\* string is "h1:r1|...|hk:rk" returns the pairs {parent, deprel}, in entry
\* order, the i-th parent being the node whose ord is hi and the i-th deprel
\* being ri.
C7_HeadResolution ==
    [][\A x \in DepsNodes :
          (GetDeps(x) /\ NothingCached(x) /\ EntriesOfRegistered(_raw_deps[x]))
              => (last'.err = "none"
                  /\ last'.ret = <<ResolvedEntries(_raw_deps[x])>>)]_vars

\* C8: between two writes the raw string of a node is deserialized at most
\* once, and a read of deps that follows a read of deps returns the same
\* list without deserializing again.
C8_ParseOnce ==
    /\ [](\A x \in Created : parses[x] <= 1)
    /\ [][\A x \in DepsNodes :
             (last.op = "deps" /\ last.self = x /\ last.err = "none" /\ GetDeps(x))
                 => (/\ last'.err = "none"
                     /\ last'.ret = last.ret
                     /\ parses'[x] = parses[x])]_vars

\* After raw_deps = "_" and a read of deps that deserialized it, a second
\* read of deps was answered from the cache.
C8_Witness ==
    /\ last.op = "deps"
    /\ last.hit
    /\ written[last.self] = [form |-> "raw_deps", value |-> <<"_">>]
    /\ parses[last.self] = 1
    /\ last.ret = << <<>> >>

\* C9: a read of deps whose most recent write is raw_deps = s returns the
\* deserialization of s, and a read of raw_deps whose most recent write is
\* deps = L returns the serialization of L.
C9_LastWriteWins ==
    [][\A x \in DepsNodes :
          /\ (GetDeps(x) /\ written[x].form = "raw_deps" /\ last'.err = "none")
                 => (/\ DeserializeRaw(x, written[x].value).err = "none"
                     /\ last'.ret = <<DeserializeRaw(x, written[x].value).deps>>)
          /\ (GetRawDeps(x) /\ written[x].form = "deps")
                 => last'.ret = <<Serialize(written[x].value)>>]_vars

\* raw is a list of entries "h:r" with integer heads one of which is the ord
\* of no registered node.
HeadNotRegistered(raw) ==
    /\ raw # <<"_">>
    /\ \A i \in 1..Len(split(raw, "|")) :
           LET entry == split(raw, "|")[i]
           IN  Len(split(entry, ":")) = 2 /\ IsIntLiteral(EntryHead(entry))
    /\ \E i \in 1..Len(split(raw, "|")) :
           int(EntryHead(split(raw, "|")[i])) \notin RegisteredOrds

\* C10: a read of deps of a node whose raw string has an entry whose head is
\* the ord of no registered node raises the lookup failure.
C10_LookupFailure ==
    [][\A x \in DepsNodes :
          (GetDeps(x) /\ NothingCached(x) /\ HeadNotRegistered(_raw_deps[x]))
              => last'.err = "IndexError"]_vars

\* The subtree of m: m and the nodes below it.
Subtree(m) == {m} \cup Below(m)

\* shift has moved self together with its subtree next to reference_node
\* and the root has renumbered.
ShiftedWithSubtree(self, reference_node) ==
    /\ \/ shift_after_node(self, reference_node)
       \/ shift_before_node(self, reference_node)
       \/ shift_after_subtree(self, reference_node, FALSE)
       \/ shift_before_subtree(self, reference_node, FALSE)
    /\ last'.err = "none"

\* C11: when a node is shifted together with its subtree, next to a node
\* outside that subtree, and the root has renumbered, any two nodes of its
\* subtree, the node itself included, are in the same order by ord as
\* before the shift.
C11_SubtreeOrderKept ==
    [][\A X \in Created, Y \in AllNodes :
          (Y \notin Subtree(X) /\ ShiftedWithSubtree(X, Y))
              => \A a \in Subtree(X), b \in Subtree(X) :
                     (ord[a] < ord[b]) <=> (ord'[a] < ord'[b])]_vars

\* The nodes X.shift_after_subtree(Y, without_children) moves.
MovedBy(X, without_children) == IF without_children THEN {X} ELSE Subtree(X)

\* After X.shift_after_subtree(Y): every moved node is after every node of
\* Y's subtree and before every node that was not moved and followed the
\* last node of Y's subtree, and the ords of the n nodes are 1..n.
PlacedAfterSubtree(X, Y, without_children) ==
    /\ \A m \in MovedBy(X, without_children) :
           /\ \A y \in Subtree(Y) : ord'[m] > ord'[y]
           /\ \A f \in AllNodes \ MovedBy(X, without_children) :
                  (\A y \in Subtree(Y) : ord[f] > ord[y]) => ord'[m] < ord'[f]
    /\ {ord'[m] : m \in Created} = 1..nnodes
    /\ \A m \in Created : frac'[m] = 0

\* C12 as stated: when X is not in Y's subtree, X.shift_after_subtree(Y)
\* places X and every node moved with it after every node of Y's subtree
\* and before every unmoved node that followed Y's subtree; ords are 1..n.
C12_PlacedAfterSubtree ==
    [][\A X \in Created, Y \in AllNodes, without_children \in BOOLEAN :
          (/\ last'.op = "shift_after_subtree" /\ last'.self = X
           /\ last'.err = "none"
           /\ X \notin Subtree(Y)
           /\ shift_after_subtree(X, Y, without_children))
              => PlacedAfterSubtree(X, Y, without_children)]_vars

\* C12: when X is not in Y's subtree and no node of Y's subtree is moved
\* with X (Y is not below X, or X is moved without its children),
\* X.shift_after_subtree(Y) places X and every node moved with it after
\* every node of Y's subtree and before every unmoved node that followed
\* Y's subtree; ords are 1..n.
C12_PlacedAfterDisjointSubtree ==
    [][\A X \in Created, Y \in AllNodes, without_children \in BOOLEAN :
          (/\ last'.op = "shift_after_subtree" /\ last'.self = X
           /\ last'.err = "none"
           /\ X \notin Subtree(Y)
           /\ Subtree(Y) \cap MovedBy(X, without_children) = {}
           /\ shift_after_subtree(X, Y, without_children))
              => PlacedAfterSubtree(X, Y, without_children)]_vars

\* A node created first has been shifted to right after the last node of
\* the subtree of a node with a child; the two subtrees are disjoint.
C12_Witness ==
    /\ last.op = "shift_after_subtree"
    /\ last.err = "none"
    /\ ord[last.self] # last.self
    /\ \E Y \in Created \ {last.self} :
           /\ Below(Y) # {}
           /\ Subtree(Y) \cap Subtree(last.self) = {}
           /\ \A y \in Subtree(Y) : ord[y] < ord[last.self]
           /\ \E y \in Subtree(Y) : ord[y] + 1 = ord[last.self]

\* The number of occurrences of e in the list s.
Count(s, e) == Cardinality({i \in 1..Len(s) : s[i] = e})

\* C13: p.create_child() in a sentence of n registered nodes returns a new
\* node whose ord is n+1, which is the last entry of the registry, whose
\* parent is p and which occurs once in p's children; the ord, the parent
\* and the registry position of every other node are unchanged.
C13_CreateChildAppends ==
    [][\A p \in AllNodes :
          CreateChild(p)
              => /\ last'.err = "none"
                 /\ last'.ret = <<nnodes + 1>>
                 /\ ord'[nnodes + 1] = Len(_descendants) + 1
                 /\ frac'[nnodes + 1] = 0
                 /\ _descendants' = Append(_descendants, nnodes + 1)
                 /\ _parent'[nnodes + 1] = p
                 /\ Count(_children'[p], nnodes + 1) = 1
                 /\ \A m \in AllNodes :
                        /\ ord'[m] = ord[m]
                        /\ frac'[m] = frac[m]
                        /\ _parent'[m] = _parent[m]]_vars

\* C14: x.remove() on a node x with parent p returns without error; then x
\* is not in p's children, the children of x are still its children, and
\* the ords of the nodes that remain below the root are consecutive.
C14_RemoveDetaches ==
    [][\A x \in Created :
          (remove(x) /\ _parent[x] # None)
              => /\ last'.err = "none"
                 /\ x \notin Range(_children'[_parent[x]])
                 /\ _children'[x] = _children[x]
                 /\ \A c \in Range(_children[x]) : _parent'[c] = x
                 /\ {ord'[m] : m \in BelowIn(Range(_children'[Root]), _children',
                                             MaxNodes + 1)}
                        = 1..Len(_descendants')]_vars

\* The ords of the sentence are 0..n: the root has 0 and the node at
\* registry position i has ord i.
OrdsAreZeroToN ==
    /\ ord[Root] = 0
    /\ Range(_descendants) = Created
    /\ Len(_descendants) = nnodes
    /\ \A i \in 1..Len(_descendants) :
           ord[_descendants[i]] = i /\ frac[_descendants[i]] = 0

\* The node of the sentence whose ord is k, or None.
NodeWithOrd(k) ==
    IF \E m \in AllNodes : ord[m] = k
    THEN CHOOSE m \in AllNodes : ord[m] = k
    ELSE None

\* C15: in a sentence with ords 0..n, prev_node of the node with ord k is
\* the node with ord k-1 (none for the root) and next_node is the node with
\* ord k+1 (none for the last); so x.next_node.prev_node is x.
C15_Neighbours ==
    (pc = "ready" /\ OrdsAreZeroToN) =>
        \A x \in AllNodes :
            /\ prev_node(x) = Returned(NodeWithOrd(ord[x] - 1))
            /\ next_node(x) = Returned(NodeWithOrd(ord[x] + 1))
            /\ next_node(x).ret # None => prev_node(next_node(x).ret) = Returned(x)

\* What the claim says a filtered view of the list plain with origin o is.
ViewAsSpecified(result, plain, o, add_self, following_only, preceding_only) ==
    LET members == Range(plain) \cup (IF add_self THEN {o} ELSE {})
    IN  /\ result.err = "none"
        /\ Range(result.ret) =
               {x \in members : /\ following_only => Keys[x] >= Keys[o]
                                /\ preceding_only => Keys[x] <= Keys[o]}
        /\ IsSortedBy(result.ret, Keys)
        /\ \A x \in Range(result.ret) : Count(result.ret, x) = 1
        /\ ~add_self =>
               /\ o \notin Range(result.ret)
               /\ following_only =>
                      Range(result.ret) \subseteq {x \in Range(plain) : Keys[x] > Keys[o]}
               /\ (following_only /\ ~preceding_only) =>
                      Range(result.ret) = {x \in Range(plain) : Keys[x] > Keys[o]}
               /\ preceding_only =>
                      Range(result.ret) \subseteq {x \in Range(plain) : Keys[x] < Keys[o]}
               /\ (preceding_only /\ ~following_only) =>
                      Range(result.ret) = {x \in Range(plain) : Keys[x] < Keys[o]}

\* C16: for every node o and every combination of add_self, following_only
\* and preceding_only with at least one set, o.children(...) and
\* o.descendants(...) return the members of the plain list, plus o with
\* add_self, restricted to ord >= o.ord with following_only and to ord <=
\* o.ord with preceding_only, sorted by ord; without add_self o is not in
\* the result and the restrictions are strict.
C16_FilteredView ==
    pc = "ready" =>
        \A o \in AllNodes, add_self \in BOOLEAN, following_only \in BOOLEAN,
           preceding_only \in BOOLEAN :
            (add_self \/ following_only \/ preceding_only) =>
                /\ ViewAsSpecified(
                       children(o, add_self, following_only, preceding_only),
                       _children[o], o, add_self, following_only, preceding_only)
                /\ ViewAsSpecified(
                       descendants_call(o, add_self, following_only, preceding_only),
                       descendants(o), o, add_self, following_only, preceding_only)

\* The misc object m carries the code in its 'Bug' annotation.
CarriesBug(m, code) == m.kind = "dict" /\ m.has /\ code \in CodesOf(m.Bug)

\* The node is one the cop-upos rule is about.
CopUposNode(x) == deprel[x] = "cop" /\ upos[x] \notin {"AUX", "PRON"}

\* C17: when the block processes a node whose deprel is 'cop' and whose upos
\* is neither 'AUX' nor 'PRON', the node then carries the code 'cop-upos' in
\* its misc 'Bug' annotation (after a comma when other codes are there) and
\* the counter of 'cop-upos' is one higher; when it processes any other
\* node, the counter is unchanged and the code is not added.
C17_CopUposMarked ==
    [][\A x \in Created :
          process_node(x) =>
              IF CopUposNode(x)
              THEN /\ CarriesBug(misc'[x], "cop-upos")
                   /\ stats'["cop-upos"] = stats["cop-upos"] + 1
                   /\ CarriesBug(misc[x], "cop-upos")
                          => SubSeq(misc'[x].Bug, 1, Len(misc[x].Bug) + 2)
                                 = misc[x].Bug \o <<",", "cop-upos">>
              ELSE /\ stats'["cop-upos"] = stats["cop-upos"]
                   /\ CarriesBug(misc'[x], "cop-upos") => CarriesBug(misc[x], "cop-upos")]_vars

\* C18: m occurs in p's children if and only if m.parent is p, and then it
\* occurs once; a parent assignment that returns takes the node out of its
\* old parent's children and changes the parent of no other node.
C18_ParentChildrenAgree ==
    /\ [](\A m \in Created, p \in AllNodes :
              Count(_children[p], m) = IF _parent[m] = p THEN 1 ELSE 0)
    /\ [](_parent[Root] = None /\ \A p \in AllNodes : Count(_children[p], Root) = 0)
    /\ [][\A n \in Created, p \in AllNodes :
             (SetParent(n, p) /\ last'.err = "none")
                 => /\ _parent'[n] = p
                    /\ _parent[n] # p => n \notin Range(_children'[_parent[n]])
                    /\ \A m \in AllNodes \ {n} : _parent'[m] = _parent[m]]_vars

\* A node with a sibling has been given another parent than it had: it has
\* left the children of the old parent, whose list still holds the sibling.
C18_Witness ==
    /\ last.op = "parent"
    /\ last.err = "none"
    /\ _parent[last.self] \in Created
    /\ Count(_children[_parent[last.self]], last.self) = 1
    /\ _children[Root] # <<>>
    /\ last.self \notin Range(_children[Root])
    /\ nnodes >= 3

\* The secondary dependencies of x are empty: '_' was written and deps has
\* been read since, or the empty list was written.
EmptyDeps(x) ==
    \/ written[x] = [form |-> "raw_deps", value |-> <<"_">>] /\ parses[x] = 1
    \/ written[x] = [form |-> "deps", value |-> <<>>]

\* C19: a read of raw_deps of a node whose secondary dependencies are empty
\* returns the sentinel '_'.
C19_EmptyIsSentinel ==
    [][\A x \in DepsNodes :
          (EmptyDeps(x) /\ GetRawDeps(x)) => last'.ret = << <<"_">> >>]_vars

\* C20: for every node x created in the sentence, the walk of x.root ends
\* and gives the sentence root, and the climb of x.is_descendant_of(y) ends
\* for every node y.
C20_UpwardWalkEnds ==
    pc = "ready" =>
        \A x \in Created :
            /\ ~RootWalkHangs(x)
            /\ root(x) = Root
            /\ \A y \in AllNodes : ~ClimbHangs(_parent[x], y, MaxNodes + 1)

\* C21: for all nodes m and a, m.is_descendant_of(a) returns true if and
\* only if m is a member of a.descendants; a.descendants is returned,
\* holds each of its nodes once, never holds a itself and is sorted
\* ascending by ord.
C21_TraversalsAgree ==
    pc = "ready" =>
        \A a \in AllNodes :
            /\ descendants_call(a, FALSE, FALSE, FALSE).err = "none"
            /\ a \notin Range(descendants(a))
            /\ IsSortedBy(descendants(a), Keys)
            /\ \A m \in Range(descendants(a)) : Count(descendants(a), m) = 1
            /\ \A m \in AllNodes :
                   /\ ~ClimbHangs(_parent[m], a, MaxNodes + 1)
                   /\ is_descendant_of(m, a) <=> m \in Range(descendants(a))

\* C22: after a read of deps that raised the lookup failure, nothing is
\* cached; a second read of deps raises the lookup failure again and a read
\* of raw_deps returns the string that was written.
C22_NoPartialCache ==
    [][\A x \in DepsNodes :
          (last.op = "deps" /\ last.self = x /\ last.err = "IndexError")
              => /\ NothingCached(x)
                 /\ GetDeps(x) => last'.err = "IndexError"
                 /\ GetRawDeps(x) => last'.ret = <<written[x].value>>]_vars

\* The head nodes of a deserialized list, in order.
Heads(list) == [i \in 1..Len(list) |-> list[i].parent]

\* C23: of two copies of a sentence with raw_deps = s written on x, deps
\* was read in one only (it holds the deserialization of s, the other holds
\* s alone); after the same shift on both, a read of deps gives the same
\* head nodes in both, and a read of raw_deps after it the same string.
C23_ShiftAlikeParsedOrNot ==
    [][\A x \in DepsNodes :
          (/\ written[x].form = "raw_deps"
           /\ ~NothingCached(x)
           /\ DeserializeRaw(x, written[x].value)
                  = [err |-> "none", deps |-> _deps[x][1]]
           /\ last'.op = "shift_before_node"
           /\ last'.err = "none")
              => /\ DeserializeRaw(x, written[x].value)'.err = "none"
                 /\ Heads(DeserializeRaw(x, written[x].value).deps)'
                        = Heads(_deps[x][1])'
                 /\ Serialize(DeserializeRaw(x, written[x].value).deps)'
                        = Serialize(_deps[x][1])']_vars
====
